---- MODULE Spec2Model ----
(***************************************************************************)
(* Model of toolkit/tools/scheduler/schedulerutils/printresults.go:        *)
(* RecordBuildSummary (the CSV report) and PrintBuildSummary (the console  *)
(* report) over a package graph and a build state shared with the          *)
(* scheduler under a sync.RWMutex.                                         *)
(*                                                                         *)
(* A Go map is a TLA+ function whose DOMAIN is the key set; ranging over a *)
(* map, over pkgGraph.From and over pkgGraph.AllBuildNodes yields the      *)
(* elements in an order the runtime picks, so every such order is an       *)
(* input of the step that ranges.  A string is the sequence of the pieces  *)
(* it was concatenated from; a path is the sequence of its elements.       *)
(***************************************************************************)
EXTENDS Integers, Sequences, FiniteSets, TLC

VARIABLES
    pkgGraph,     \* the graph: per node its type, SrpmPath, run state and From list
    buildState,   \* GraphBuildState: per-node flags, failures, conflict lists
    recordRun,    \* the outcome of a whole RecordBuildSummary call, or NotRun
    printRun,     \* per allowToolchainRebuilds value: the outcome of a PrintBuildSummary call
    rw,           \* graphMutex: the readers holding it and the writer's position
    pc,           \* position of each process in its call
    locals,       \* the local variables of the two report calls in flight
    csvFile,      \* the file at outputPath
    logOut,       \* the log lines each report call has emitted
    snap,         \* buildState as it was when the call took the read lock
    unlocks,      \* RUnlock calls made by each report call
    nwrites       \* scheduler updates so far

vars == <<pkgGraph, buildState, recordRun, printRun, rw, pc, locals, csvFile,
          logOut, snap, unlocks, nwrites>>

seqVars  == <<recordRun, printRun>>
concVars == <<rw, pc, locals, logOut, snap, unlocks, nwrites>>

----------------------------------------------------------------------------
(* Bounds *)

MaxFailures  == 2   \* longest failure list drawn
MaxConflicts == 2   \* longest conflict list drawn
MaxWrites    == 2   \* scheduler updates in the concurrent specification

----------------------------------------------------------------------------
(* The graph *)

Nodes == {1, 2, 3}

PathX  == <<"SRPMS", "x.src.rpm">>
PathX2 == <<"cache", "SRPMS", "x.src.rpm">>
PathY  == <<"SRPMS", "y.src.rpm">>

\* A call that has not run has no outcome; a call that ran has one.
NotRun == <<>>

\* filepath.Base: the last element of the path, "." for the empty path.
Base(path) == IF Len(path) = 0 THEN "." ELSE path[Len(path)]

\* pkgGraph.AllBuildNodes / AllRunNodes: the nodes of each type.
AllBuildNodes(g) == {n \in Nodes : g.type[n] = "build"}
AllRunNodes(g)   == {n \in Nodes : g.type[n] = "run"}

\* pkgGraph.From(id): the nodes the edges leaving id reach.
From(g, n) == g.from[n]

\* Every enumeration order of a finite set.
OrdersOf(S) == {s \in [1..Cardinality(S) -> S] : \A i, j \in 1..Cardinality(S) : s[i] = s[j] => i = j}

SeqRange(s) == {s[i] : i \in 1..Len(s)}

----------------------------------------------------------------------------
(* The build state accessors *)

IsNodeCached(bs, n)    == bs.nodeToState[n].cached
IsNodeDelta(bs, n)     == bs.nodeToState[n].delta
IsNodeAvailable(bs, n) == bs.nodeToState[n].available
BuildFailures(bs)      == bs.failures
ConflictingRPMs(bs)    == bs.rpmConflicts
ConflictingSRPMs(bs)   == bs.srpmConflicts

----------------------------------------------------------------------------
(* Classification, as both reports compute it *)

EmptyMap == [k \in {} |-> 0]

MapPut(m, k, v) == [x \in (DOMAIN m) \cup {k} |-> IF x = k THEN v ELSE m[x]]

\* for _, failure := range failures { failedSRPMs[failure.Node.SrpmPath] = failure.Node }
RECURSIVE FailedSRPMs(_, _)
FailedSRPMs(g, failures) ==
    IF failures = <<>> THEN EmptyMap
    ELSE LET n    == Len(failures)
             node == failures[n].node
         IN  MapPut(FailedSRPMs(g, SubSeq(failures, 1, n - 1)), g.srpm[node], node)

EmptyCats == [prebuilt |-> EmptyMap, prebuiltDelta |-> EmptyMap,
              built |-> EmptyMap, unbuilt |-> EmptyMap]

\* The body of the loop over buildNodes for one node.
ClassifyNode(g, bs, failed, cats, node) ==
    IF IsNodeCached(bs, node)
    THEN IF IsNodeDelta(bs, node)
         THEN [cats EXCEPT !.prebuiltDelta = MapPut(@, g.srpm[node], node)]
         ELSE [cats EXCEPT !.prebuilt = MapPut(@, g.srpm[node], node)]
    ELSE IF IsNodeAvailable(bs, node)
         THEN [cats EXCEPT !.built = MapPut(@, g.srpm[node], node)]
         ELSE IF g.srpm[node] \in DOMAIN failed
              THEN cats
              ELSE [cats EXCEPT !.unbuilt = MapPut(@, g.srpm[node], node)]

\* for _, node := range buildNodes { ... }, buildNodes in the order given.
RECURSIVE Classify(_, _, _, _)
Classify(g, bs, failed, buildNodes) ==
    IF buildNodes = <<>> THEN EmptyCats
    ELSE LET n == Len(buildNodes)
         IN  ClassifyNode(g, bs, failed,
                          Classify(g, bs, failed, SubSeq(buildNodes, 1, n - 1)),
                          buildNodes[n])

\* The unresolved run nodes' VersionedPkg.String() values.
UnresolvedDependencies(g) ==
    {g.pkg[n] : n \in {m \in AllRunNodes(g) : g.state[m] = "Unresolved"}}

----------------------------------------------------------------------------
(* RecordBuildSummary: the CSV table *)

\* The blocker loop without its second lookup: predecessors in the Unbuilt
\* set get no token.
RECURSIVE BlockingNodesStrFailOnly(_, _, _, _)
BlockingNodesStrFailOnly(g, failed, unbuilt, fromNodes) ==
    IF fromNodes = <<>> THEN <<>>
    ELSE LET n        == Len(fromNodes)
             fromNode == fromNodes[n]
             fail     == IF g.srpm[fromNode] \in DOMAIN failed
                         THEN <<Base(g.srpm[fromNode]), "-FAIL", " ">> ELSE <<>>
         IN  BlockingNodesStrFailOnly(g, failed, unbuilt, SubSeq(fromNodes, 1, n - 1)) \o fail

\* The loop over pkgGraph.From(node.ID()) that builds blocking_nodes_str,
\* fromNodes being the nodes in the order the iterator yields them.
RECURSIVE BlockingNodesStr(_, _, _, _)
BlockingNodesStr(g, failed, unbuilt, fromNodes) ==
    IF fromNodes = <<>> THEN <<>>
    ELSE LET n        == Len(fromNodes)
             fromNode == fromNodes[n]
             fail     == IF g.srpm[fromNode] \in DOMAIN failed
                         THEN <<Base(g.srpm[fromNode]), "-FAIL", " ">> ELSE <<>>
             unb      == IF g.srpm[fromNode] \in DOMAIN unbuilt
                         THEN <<Base(g.srpm[fromNode]), "-UNBUILT", " ">> ELSE <<>>
         IN  BlockingNodesStr(g, failed, unbuilt, SubSeq(fromNodes, 1, n - 1)) \o fail \o unb

\* for srpm := range m { csvBlob = append(csvBlob, {Base(m[srpm].SrpmPath), state}) }
StateRows(g, m, keys, state) ==
    [i \in 1..Len(keys) |-> <<Base(g.srpm[m[keys[i]]]), state>>]

\* The Failed and the Unbuilt loop: the row of each key, with its blocker string.
BlockedRows(g, m, keys, state, failed, unbuilt, fromOrd) ==
    [i \in 1..Len(keys) |->
        <<Base(g.srpm[m[keys[i]]]), state,
          BlockingNodesStr(g, failed, unbuilt, fromOrd[m[keys[i]]])>>]

CsvHeader == <<"Package", "State", "Blocker">>

\* csvBlob as lines 85-138 build it; ord gives the iteration order of each
\* map, fromOrd the order From yields for each node.
CsvBlob(g, failed, cats, ord, fromOrd) ==
    <<CsvHeader>>
    \o StateRows(g, cats.built, ord.built, "Built")
    \o StateRows(g, cats.prebuilt, ord.prebuilt, "PreBuilt")
    \o StateRows(g, cats.prebuiltDelta, ord.prebuiltDelta, "PreBuiltDelta")
    \o BlockedRows(g, failed, ord.failed, "Failed", failed, cats.unbuilt, fromOrd)
    \o BlockedRows(g, cats.unbuilt, ord.unbuilt, "Unbuilt", failed, cats.unbuilt, fromOrd)

\* The iteration orders the runtime may pick for the five maps.
MapOrders(failed, cats) ==
    [built         : OrdersOf(DOMAIN cats.built),
     prebuilt      : OrdersOf(DOMAIN cats.prebuilt),
     prebuiltDelta : OrdersOf(DOMAIN cats.prebuiltDelta),
     failed        : OrdersOf(DOMAIN failed),
     unbuilt       : OrdersOf(DOMAIN cats.unbuilt)]

\* The orders the From iterator may yield, per node.
FromOrders(g) ==
    {f \in [Nodes -> UNION {OrdersOf(From(g, n)) : n \in Nodes}] :
        \A n \in Nodes : f[n] \in OrdersOf(From(g, n))}

WarnCreate == [sev |-> "Warn", text |-> <<"Unable to create file">>]
WarnWrite  == [sev |-> "Warn", text |-> <<"Failed to write to CSV file">>]

IoOutcomes == {"ok", "createFail", "writeFail"}

\* Lines 140-151: what the call logs for each outcome of os.Create / WriteAll.
RecordLog(io) ==
    IF io = "createFail" THEN <<WarnCreate>>
    ELSE IF io = "writeFail" THEN <<WarnWrite>>
    ELSE <<>>

NoFile == [state |-> "none", rows |-> <<>>]

\* Lines 140-151: the file at outputPath afterwards.  A failed os.Create
\* leaves it as it was; a failed WriteAll leaves a created file whose
\* content is whatever part was flushed (not modelled further).
FileAfter(old, blob, io) ==
    IF io = "createFail" THEN old
    ELSE IF io = "writeFail" THEN [state |-> "partial", rows |-> <<>>]
    ELSE [state |-> "written", rows |-> blob]

----------------------------------------------------------------------------
(* PrintBuildSummary: the console summary *)

\* for _, failure := range failures { failedSRPMs[failure.Node.SrpmPath] = true }
RECURSIVE PrintFailedSRPMs(_, _)
PrintFailedSRPMs(g, failures) ==
    IF failures = <<>> THEN EmptyMap
    ELSE LET n == Len(failures)
         IN  MapPut(PrintFailedSRPMs(g, SubSeq(failures, 1, n - 1)),
                    g.srpm[failures[n].node], TRUE)

\* The body of the loop over buildNodes (lines 180-195) for one node.
PrintClassifyNode(g, bs, failed, cats, node) ==
    IF IsNodeCached(bs, node)
    THEN IF IsNodeDelta(bs, node)
         THEN [cats EXCEPT !.prebuiltDelta = MapPut(@, g.srpm[node], TRUE)]
         ELSE [cats EXCEPT !.prebuilt = MapPut(@, g.srpm[node], TRUE)]
    ELSE IF IsNodeAvailable(bs, node)
         THEN [cats EXCEPT !.built = MapPut(@, g.srpm[node], TRUE)]
         ELSE IF g.srpm[node] \in DOMAIN failed
              THEN cats
              ELSE [cats EXCEPT !.unbuilt = MapPut(@, g.srpm[node], TRUE)]

RECURSIVE PrintClassify(_, _, _, _)
PrintClassify(g, bs, failed, buildNodes) ==
    IF buildNodes = <<>> THEN EmptyCats
    ELSE LET n == Len(buildNodes)
         IN  PrintClassifyNode(g, bs, failed,
                               PrintClassify(g, bs, failed, SubSeq(buildNodes, 1, n - 1)),
                               buildNodes[n])

Info(text)  == [sev |-> "Info", text |-> text]
Error(text) == [sev |-> "Error", text |-> text]

\* The severity chosen without looking at allowToolchainRebuilds.
ConflictsSeverityNoFlag(allow, rpmConflicts, srpmConflicts) ==
    IF Len(rpmConflicts) = 0 /\ Len(srpmConflicts) = 0 THEN "Info" ELSE "Error"

\* conflictsLogger (lines 173-176): the severity of the conflict lines.
ConflictsSeverity(allow, rpmConflicts, srpmConflicts) ==
    IF allow \/ (Len(rpmConflicts) = 0 /\ Len(srpmConflicts) = 0) THEN "Info" ELSE "Error"

\* Lines 204-213: the banner and the six counts.
CountLines(cats, failures, unresolved) ==
    << Info(<<"---------------------------">>),
       Info(<<"--------- Summary ---------">>),
       Info(<<"---------------------------">>),
       Info(<<"Number of built SRPMs:", ToString(Cardinality(DOMAIN cats.built))>>),
       Info(<<"Number of prebuilt SRPMs:", ToString(Cardinality(DOMAIN cats.prebuilt))>>),
       Info(<<"Number of prebuilt delta SRPMs:", ToString(Cardinality(DOMAIN cats.prebuiltDelta))>>),
       Info(<<"Number of failed SRPMs:", ToString(Len(failures))>>),
       Info(<<"Number of blocked SRPMs:", ToString(Cardinality(DOMAIN cats.unbuilt))>>),
       Info(<<"Number of unresolved dependencies:", ToString(Cardinality(unresolved))>>) >>

IgnoredNotice == Info(<<"Toolchain RPMs conflicts are ignored since ALLOW_TOOLCHAIN_REBUILDS=y">>)

\* Lines 215-222: the notice and the two conflict counts.
ConflictCountLines(allow, rpmConflicts, srpmConflicts) ==
    LET sev == ConflictsSeverity(allow, rpmConflicts, srpmConflicts)
        any == Len(rpmConflicts) > 0 \/ Len(srpmConflicts) > 0
    IN  (IF allow /\ any THEN <<IgnoredNotice>> ELSE <<>>)
        \o (IF any
            THEN << [sev |-> sev, text |-> <<"Number of toolchain RPM conflicts:", ToString(Len(rpmConflicts))>>],
                    [sev |-> sev, text |-> <<"Number of toolchain SRPM conflicts:", ToString(Len(srpmConflicts))>>] >>
            ELSE <<>>)

\* if len(m) != 0 { Info(title); for srpm := range m { Infof("--> %s", Base(srpm)) } }
SectionLines(title, keys) ==
    IF Len(keys) = 0 THEN <<>>
    ELSE <<Info(<<title>>)>> \o [i \in 1..Len(keys) |-> Info(<<"-->", Base(keys[i])>>)]

\* node.SRPMFileName()
SRPMFileName(g, n) == Base(g.srpm[n])

\* Lines 245-250: one line per entry of the failure list.
FailureLines(g, failures) ==
    IF Len(failures) = 0 THEN <<>>
    ELSE <<Info(<<"Failed SRPMs:">>)>>
         \o [i \in 1..Len(failures) |->
                Info(<<"-->", SRPMFileName(g, failures[i].node), ", error:", failures[i].err,
                       ", for details see:", failures[i].logFile>>)]

\* Lines 259-264.
UnresolvedLines(deps) ==
    IF Len(deps) = 0 THEN <<>>
    ELSE <<Info(<<"Unresolved dependencies:">>)>> \o [i \in 1..Len(deps) |-> Info(<<"-->", deps[i]>>)]

\* Lines 266-278: one conflict list, at the conflict severity.
ConflictLines(sev, title, conflicts) ==
    IF Len(conflicts) = 0 THEN <<>>
    ELSE <<[sev |-> sev, text |-> <<title>>]>>
         \o [i \in 1..Len(conflicts) |-> [sev |-> sev, text |-> <<"-->", conflicts[i]>>]]

\* Every line PrintBuildSummary logs, in order (lines 204-278).
SummaryLines(g, bs, allow, cats, unresolved, ord) ==
    LET failures == BuildFailures(bs)
        rpmC     == ConflictingRPMs(bs)
        srpmC    == ConflictingSRPMs(bs)
        sev      == ConflictsSeverity(allow, rpmC, srpmC)
    IN  CountLines(cats, failures, unresolved)
        \o ConflictCountLines(allow, rpmC, srpmC)
        \o SectionLines("Built SRPMs:", ord.built)
        \o SectionLines("Prebuilt SRPMs:", ord.prebuilt)
        \o SectionLines("Skipped SRPMs (i.e., delta mode is on, packages are already available in a repo):", ord.prebuiltDelta)
        \o FailureLines(g, failures)
        \o SectionLines("Blocked SRPMs:", ord.unbuilt)
        \o UnresolvedLines(ord.unresolved)
        \o ConflictLines(sev, "RPM conflicts with toolchain: ", rpmC)
        \o ConflictLines(sev, "SRPM conflicts with toolchain: ", srpmC)

\* The iteration orders the runtime may pick for the maps PrintBuildSummary ranges over.
PrintOrders(cats, unresolved) ==
    [built         : OrdersOf(DOMAIN cats.built),
     prebuilt      : OrdersOf(DOMAIN cats.prebuilt),
     prebuiltDelta : OrdersOf(DOMAIN cats.prebuiltDelta),
     unbuilt       : OrdersOf(DOMAIN cats.unbuilt),
     unresolved    : OrdersOf(unresolved)]

----------------------------------------------------------------------------
(* The inputs *)

\* The edges: node 1 depends on 2 and 3, node 2 on 3.
FromEdges == [n \in Nodes |-> IF n = 1 THEN {2, 3} ELSE IF n = 2 THEN {3} ELSE {}]

\* SrpmPath per node: all different (two with one base name), or two nodes
\* of one SRPM.
\* Nodes 1 and 2 are build nodes; node 3 is a build node or a run node,
\* resolved or not.
Graph(t, p) ==
    [type  |-> [n \in Nodes |-> IF n = 3 THEN t[1] ELSE "build"],
     srpm  |-> p,
     state |-> [n \in Nodes |-> IF n = 3 THEN t[2] ELSE "Build"],
     pkg   |-> [n \in Nodes |-> "pkg-" \o ToString(n)],
     from  |-> FromEdges]

DistinctPaths == [n \in Nodes |-> IF n = 1 THEN PathY ELSE IF n = 2 THEN PathX ELSE PathX2]
SharedPath23  == [n \in Nodes |-> IF n = 1 THEN PathY ELSE PathX]
SharedPath12  == [n \in Nodes |-> IF n = 3 THEN PathY ELSE PathX]

PathChoices == {DistinctPaths, SharedPath23, SharedPath12}

Graphs ==
    { Graph(<<"build", "Build">>, p) : p \in PathChoices }
    \cup { Graph(<<"run", "Unresolved">>, SharedPath23), Graph(<<"run", "Cached">>, DistinctPaths) }

\* nodeState values: not built, built, built with the delta discarded,
\* cached, cached as a delta, cached but not available.
NodeStates ==
    { [cached |-> FALSE, delta |-> FALSE, available |-> FALSE],
      [cached |-> FALSE, delta |-> FALSE, available |-> TRUE],
      [cached |-> FALSE, delta |-> TRUE,  available |-> TRUE],
      [cached |-> TRUE,  delta |-> FALSE, available |-> TRUE],
      [cached |-> TRUE,  delta |-> TRUE,  available |-> TRUE],
      [cached |-> TRUE,  delta |-> FALSE, available |-> FALSE] }

NoState == [cached |-> FALSE, delta |-> FALSE, available |-> FALSE]

Failure(n) == [node |-> n, err |-> "exit status 1", logFile |-> "build.log"]

SeqsUpTo(S, k) == UNION {[1..i -> S] : i \in 0..k}

Built == [cached |-> FALSE, delta |-> FALSE, available |-> TRUE]

\* Build states over graph g: flags from states on the build nodes, any
\* failure list of build nodes up to maxFail, conflict lists of the lengths
\* given.
BuildStates(g, states, maxFail, conflictLens) ==
    { [nodeToState |-> st, failures |-> [i \in 1..Len(f) |-> Failure(f[i])],
       rpmConflicts |-> [i \in 1..c[1] |-> "rpm-" \o ToString(i)],
       srpmConflicts |-> [i \in 1..c[2] |-> "srpm-" \o ToString(i)]] :
        st \in {s \in [Nodes -> states] : \A n \in AllRunNodes(g) : s[n] = NoState},
        f \in SeqsUpTo(AllBuildNodes(g), maxFail),
        c \in conflictLens }

Reports == {"record", "print"}

EmptyBuildState ==
    [nodeToState |-> [n \in Nodes |-> NoState], failures |-> <<>>,
     rpmConflicts |-> <<>>, srpmConflicts |-> <<>>]

NoLocals ==
    [allow |-> FALSE, failed |-> EmptyMap, cats |-> EmptyCats, unresolved |-> {},
     csvBlob |-> <<>>, io |-> "none"]

\* No call in flight, graphMutex free.
IdleConc ==
    /\ rw = [readers |-> {}, writer |-> "none"]
    /\ pc = [p \in Reports \cup {"sched"} |-> "idle"]
    /\ locals = [p \in Reports |-> <<>>]
    /\ logOut = [p \in Reports |-> <<>>]
    /\ snap = [p \in Reports |-> <<>>]
    /\ unlocks = [p \in Reports |-> 0]
    /\ nwrites = 0

NoReport ==
    /\ recordRun = NotRun
    /\ printRun = [a \in BOOLEAN |-> NotRun]
    /\ csvFile = NoFile

\* Any graph, any flags, any failure list, no toolchain conflicts.
Init ==
    /\ pkgGraph \in Graphs
    /\ buildState \in BuildStates(pkgGraph, NodeStates, MaxFailures, {<<0, 0>>})
    /\ NoReport
    /\ IdleConc

----------------------------------------------------------------------------
(* The two reports as whole calls *)

\* Lines 44-138 for one order of AllBuildNodes: the locals and every csvBlob
\* the iteration orders allow.
RecordLocals(g, bs, buildNodes) ==
    LET failed == FailedSRPMs(g, BuildFailures(bs))
        cats   == Classify(g, bs, failed, buildNodes)
    IN  { [failed |-> failed, cats |-> cats,
           csvBlob |-> CsvBlob(g, failed, cats, ord, fromOrd)] :
            ord \in MapOrders(failed, cats), fromOrd \in FromOrders(g) }

\* RecordBuildSummary, lines 39-152: every outcome of one call.
RecordOutcomes(g, bs) ==
    { [failed |-> l.failed, cats |-> l.cats, csvBlob |-> l.csvBlob,
       io |-> io, log |-> RecordLog(io)] :
        l \in UNION {RecordLocals(g, bs, o) : o \in OrdersOf(AllBuildNodes(g))},
        io \in IoOutcomes }

RecordBuildSummary ==
    /\ recordRun = NotRun
    /\ \E out \in RecordOutcomes(pkgGraph, buildState) :
         /\ recordRun' = <<out>>
         /\ csvFile' = FileAfter(csvFile, out.csvBlob, out.io)
    /\ UNCHANGED <<pkgGraph, buildState, printRun, concVars>>

\* Lines 159-279 for one order of AllBuildNodes: the locals and every
\* sequence of lines the iteration orders allow.
PrintLocals(g, bs, allow, buildNodes) ==
    LET failed     == PrintFailedSRPMs(g, BuildFailures(bs))
        cats       == PrintClassify(g, bs, failed, buildNodes)
        unresolved == UnresolvedDependencies(g)
    IN  { [failed |-> failed, cats |-> cats, unresolved |-> unresolved,
           log |-> SummaryLines(g, bs, allow, cats, unresolved, ord)] :
            ord \in PrintOrders(cats, unresolved) }

\* PrintBuildSummary, lines 155-279: every outcome of one call.
PrintOutcomes(g, bs, allow) ==
    UNION {PrintLocals(g, bs, allow, o) : o \in OrdersOf(AllBuildNodes(g))}

PrintBuildSummary(allow) ==
    /\ printRun[allow] = NotRun
    /\ \E out \in PrintOutcomes(pkgGraph, buildState, allow) :
         printRun' = [printRun EXCEPT ![allow] = <<out>>]
    /\ UNCHANGED <<pkgGraph, buildState, recordRun, csvFile, concVars>>

\* One console summary per run of the tool.
PrintOnce ==
    /\ \A a \in BOOLEAN : printRun[a] = NotRun
    /\ \E allow \in BOOLEAN : PrintBuildSummary(allow)

\* One report call on each snapshot.
Fresh == recordRun = NotRun /\ \A a \in BOOLEAN : printRun[a] = NotRun

Next ==
    \/ Fresh /\ RecordBuildSummary
    \/ Fresh /\ PrintOnce

Spec == Init /\ [][Next]_vars

\* Both reports on one snapshot, in either order.
PairInit ==
    /\ pkgGraph \in Graphs
    /\ buildState \in BuildStates(pkgGraph, {NoState, Built}, MaxFailures, {<<0, 0>>})
    /\ NoReport
    /\ IdleConc

PairNext ==
    \/ RecordBuildSummary
    \/ PrintOnce

PairSpec == PairInit /\ [][PairNext]_vars

\* Two console summaries of one snapshot, one with allowToolchainRebuilds
\* and one without, over conflict lists of every length up to MaxConflicts.
ConflictInit ==
    /\ pkgGraph \in Graphs
    /\ buildState \in BuildStates(pkgGraph, {NoState, Built}, 1,
                                   (0..MaxConflicts) \X (0..MaxConflicts))
    /\ NoReport
    /\ IdleConc

ConflictNext == \E allow \in BOOLEAN : PrintBuildSummary(allow)

ConflictSpec == ConflictInit /\ [][ConflictNext]_vars

----------------------------------------------------------------------------
(* Properties of one report on one snapshot *)

RecordRan == recordRun # NotRun
Rec       == recordRun[1]
PrintRan(a) == printRun[a] # NotRun
Prt(a)      == printRun[a][1]

\* The nodes a category map holds.
CatNodes(m) == {m[k] : k \in DOMAIN m}

RecCategories ==
    [Built |-> Rec.cats.built, Prebuilt |-> Rec.cats.prebuilt,
     PrebuiltDelta |-> Rec.cats.prebuiltDelta, Failed |-> Rec.failed,
     Unbuilt |-> Rec.cats.unbuilt]

CategoryNames == {"Built", "Prebuilt", "PrebuiltDelta", "Failed", "Unbuilt"}

FailureNodes(bs) == {BuildFailures(bs)[i].node : i \in 1..Len(BuildFailures(bs))}

\* C1: the five category sets RecordBuildSummary computes are pairwise
\* disjoint and their union is exactly the set of build-type nodes.
C1_Partition ==
    RecordRan =>
        /\ \A c, d \in CategoryNames :
               c # d => CatNodes(RecCategories[c]) \cap CatNodes(RecCategories[d]) = {}
        /\ UNION {CatNodes(RecCategories[c]) : c \in CategoryNames} = AllBuildNodes(pkgGraph)

\* The number ToString printed in a count line.
Printed(line) == CHOOSE n \in 0..(Cardinality(Nodes) + Len(BuildFailures(buildState)) + 1) :
                     ToString(n) = line.text[2]

\* C2: the five counts PrintBuildSummary prints (built, prebuilt, prebuilt
\* delta, failed, blocked) sum to the number of build-type nodes.
C2_CountsSum ==
    \A a \in BOOLEAN : PrintRan(a) =>
        Printed(Prt(a).log[4]) + Printed(Prt(a).log[5]) + Printed(Prt(a).log[6])
          + Printed(Prt(a).log[7]) + Printed(Prt(a).log[8])
        = Cardinality(AllBuildNodes(pkgGraph))

\* The first matching rule of the priority order for node n.
FirstRule(g, bs, n) ==
    IF bs.nodeToState[n].cached /\ bs.nodeToState[n].delta THEN "PrebuiltDelta"
    ELSE IF bs.nodeToState[n].cached THEN "Prebuilt"
    ELSE IF bs.nodeToState[n].available THEN "Built"
    ELSE IF n \in FailureNodes(bs) THEN "Failed"
    ELSE "Unbuilt"

\* C3: every build-type node is reported in the category of the first
\* matching rule (cached+delta, cached, available, failed, else unbuilt), and
\* in no other.
C3_Priority ==
    RecordRan =>
        \A n \in AllBuildNodes(pkgGraph) :
            {c \in CategoryNames : pkgGraph.srpm[n] \in DOMAIN RecCategories[c]}
                = {FirstRule(pkgGraph, buildState, n)}

\* The data rows of a table whose State is one of states.
RowsIn(rows, states) == SelectSeq(rows, LAMBDA r : r # CsvHeader /\ r[2] \in states)

\* The token of predecessor p: FAIL if its SRPM is in the Failed set, UNBUILT
\* if it is in the Unbuilt set, none otherwise.
RECURSIVE Tokens(_, _, _, _)
Tokens(g, failed, unbuilt, preds) ==
    IF preds = <<>> THEN <<>>
    ELSE LET p == Head(preds)
             t == IF g.srpm[p] \in DOMAIN failed THEN <<<<Base(g.srpm[p]), "-FAIL">>>>
                  ELSE IF g.srpm[p] \in DOMAIN unbuilt THEN <<<<Base(g.srpm[p]), "-UNBUILT">>>>
                  ELSE <<>>
         IN  t \o Tokens(g, failed, unbuilt, Tail(preds))

\* Tokens joined by single spaces, nothing before the first or after the last.
RECURSIVE JoinSpace(_)
JoinSpace(tokens) ==
    IF tokens = <<>> THEN <<>>
    ELSE IF Len(tokens) = 1 THEN tokens[1]
    ELSE tokens[1] \o <<" ">> \o JoinSpace(Tail(tokens))

\* Every token followed by one space.
RECURSIVE EachThenSpace(_)
EachThenSpace(tokens) ==
    IF tokens = <<>> THEN <<>>
    ELSE tokens[1] \o <<" ">> \o EachThenSpace(Tail(tokens))

\* The Failed rows then the Unbuilt rows, for given iteration orders, with the
\* blocker of each row formatted by fmt from its predecessors' tokens.
ExpectedBlocked(g, failed, unbuilt, ord, fromOrd, fmt(_)) ==
    [i \in 1..Len(ord.failed) |->
        <<Base(ord.failed[i]), "Failed",
          fmt(Tokens(g, failed, unbuilt, fromOrd[failed[ord.failed[i]]]))>>]
    \o [i \in 1..Len(ord.unbuilt) |->
        <<Base(ord.unbuilt[i]), "Unbuilt",
          fmt(Tokens(g, failed, unbuilt, fromOrd[unbuilt[ord.unbuilt[i]]]))>>]

BlockedAsFormatted(fmt(_)) ==
    \E ord \in MapOrders(Rec.failed, Rec.cats), fromOrd \in FromOrders(pkgGraph) :
        RowsIn(Rec.csvBlob, {"Failed", "Unbuilt"})
            = ExpectedBlocked(pkgGraph, Rec.failed, Rec.cats.unbuilt, ord, fromOrd, fmt)

StateName(c) ==
    IF c = "Prebuilt" THEN "PreBuilt" ELSE IF c = "PrebuiltDelta" THEN "PreBuiltDelta" ELSE c

\* The position of a State value in the block order of the table.
BlockRank(state) ==
    IF state = "Built" THEN 1 ELSE IF state = "PreBuilt" THEN 2
    ELSE IF state = "PreBuiltDelta" THEN 3 ELSE IF state = "Failed" THEN 4 ELSE 5

\* C5: when the write succeeds the table is the header followed by exactly
\* one row per build-type node, each with the node's base name, its category
\* as State and its blocker annotation as Blocker (absent or empty on Built,
\* PreBuilt and PreBuiltDelta rows), in the block order Built, PreBuilt,
\* PreBuiltDelta, Failed, Unbuilt.
C5_Table ==
    (RecordRan /\ Rec.io = "ok") =>
        /\ csvFile.state = "written"
        /\ csvFile.rows[1] = CsvHeader
        /\ \E ns \in OrdersOf(AllBuildNodes(pkgGraph)), fromOrd \in FromOrders(pkgGraph) :
              /\ Len(csvFile.rows) = 1 + Len(ns)
              /\ \A i \in 1..Len(ns) :
                    LET row == csvFile.rows[i + 1]
                    IN  /\ row[1] = Base(pkgGraph.srpm[ns[i]])
                        /\ row[2] = StateName(FirstRule(pkgGraph, buildState, ns[i]))
                        /\ IF row[2] \in {"Failed", "Unbuilt"}
                           THEN row[3] = BlockingNodesStr(pkgGraph, Rec.failed,
                                                          Rec.cats.unbuilt, fromOrd[ns[i]])
                           ELSE Len(row) = 2 \/ row[3] = <<>>
        /\ \A i, j \in 2..Len(csvFile.rows) :
              i < j => BlockRank(csvFile.rows[i][2]) <= BlockRank(csvFile.rows[j][2])

\* The names on the "Failed SRPMs:" lines of a console summary.
PrintedFailures(log) ==
    {log[i].text[2] : i \in {j \in 1..Len(log) : Len(log[j].text) = 6 /\ log[j].text[3] = ", error:"}}

\* C10: on one snapshot the number and the names of the failed SRPMs that
\* PrintBuildSummary reports equal the number and the names of the Failed rows
\* RecordBuildSummary writes, and the Built, Prebuilt, PrebuiltDelta and
\* Unbuilt memberships of the two are the same.
C10_RenderersAgree ==
    \A a \in BOOLEAN : (RecordRan /\ PrintRan(a)) =>
        LET failedRows == RowsIn(Rec.csvBlob, {"Failed"})
        IN  /\ Printed(Prt(a).log[7]) = Len(failedRows)
            /\ PrintedFailures(Prt(a).log) = {failedRows[i][1] : i \in 1..Len(failedRows)}
            /\ DOMAIN Prt(a).cats.built = DOMAIN Rec.cats.built
            /\ DOMAIN Prt(a).cats.prebuilt = DOMAIN Rec.cats.prebuilt
            /\ DOMAIN Prt(a).cats.prebuiltDelta = DOMAIN Rec.cats.prebuiltDelta
            /\ DOMAIN Prt(a).cats.unbuilt = DOMAIN Rec.cats.unbuilt

----------------------------------------------------------------------------
(* Two console summaries that differ in allowToolchainRebuilds *)

Texts(log) == [i \in 1..Len(log) |-> log[i].text]

AnyConflict == Len(ConflictingRPMs(buildState)) > 0 \/ Len(ConflictingSRPMs(buildState)) > 0

\* The lines logged through conflictsLogger: the two conflict counts, the two
\* list titles and the list entries.
IsConflictText(t) ==
    \/ t[1] \in {"Number of toolchain RPM conflicts:", "Number of toolchain SRPM conflicts:",
                 "RPM conflicts with toolchain: ", "SRPM conflicts with toolchain: "}
    \/ /\ Len(t) = 2 /\ t[1] = "-->"
       /\ t[2] \in SeqRange(ConflictingRPMs(buildState)) \cup SeqRange(ConflictingSRPMs(buildState))

IsConflictLine(l) == IsConflictText(l.text)

\* How often text t occurs in log.
Occurrences(log, t) == Cardinality({i \in 1..Len(log) : log[i].text = t})

\* The conflict lines are at Info when the flag is set or there is no
\* conflict, at Error otherwise.
ConflictSeverityRule ==
    \A a \in BOOLEAN : PrintRan(a) =>
        \A i \in 1..Len(Prt(a).log) :
            IsConflictLine(Prt(a).log[i]) =>
                Prt(a).log[i].sev = IF a \/ ~AnyConflict THEN "Info" ELSE "Error"

\* C8 as claimed: two runs that differ only in the flag emit the same
\* sequence of line texts, and the conflict lines are at Info when the flag is
\* set or both lists are empty, at Error otherwise.
C8_SameLines ==
    /\ (PrintRan(TRUE) /\ PrintRan(FALSE)) => Texts(Prt(TRUE).log) = Texts(Prt(FALSE).log)
    /\ ConflictSeverityRule

\* C8 amended: the flag changes neither the conflict lines (same texts, same
\* number, same order) nor how often any other line text occurs, except that
\* with a conflict present the run with the flag set logs one more line, the
\* notice that the conflicts are ignored; the lines of a category may come in
\* a different order in each run.  The severity rule is as claimed.
C8_SameLinesButNotice ==
    /\ (PrintRan(TRUE) /\ PrintRan(FALSE)) =>
          LET T == Prt(TRUE).log
              F == Prt(FALSE).log
          IN  /\ Texts(SelectSeq(T, IsConflictLine)) = Texts(SelectSeq(F, IsConflictLine))
              /\ \A t \in SeqRange(Texts(T)) \cup SeqRange(Texts(F)) :
                    t # IgnoredNotice.text => Occurrences(T, t) = Occurrences(F, t)
              /\ Occurrences(F, IgnoredNotice.text) = 0
              /\ Occurrences(T, IgnoredNotice.text) = IF AnyConflict THEN 1 ELSE 0
              /\ Len(T) = Len(F) + (IF AnyConflict THEN 1 ELSE 0)
    /\ ConflictSeverityRule

\* Both runs done on a snapshot with conflicts in both lists.
C8_Witness ==
    /\ PrintRan(TRUE) /\ PrintRan(FALSE)
    /\ Len(ConflictingRPMs(buildState)) > 0 /\ Len(ConflictingSRPMs(buildState)) > 0
    /\ \E i \in 1..Len(Prt(FALSE).log) : Prt(FALSE).log[i].sev = "Error"
    /\ \E i \in 1..Len(Prt(TRUE).log) : Prt(TRUE).log[i] = IgnoredNotice

----------------------------------------------------------------------------
(* The reports step by step, concurrent with the scheduler *)

\* sync.RWMutex: RLock waits while a writer holds the lock or waits for it;
\* Lock announces the writer, then waits for the readers to leave.
CanRLock(m) == m.writer = "none"
CanLock(m)  == m.readers = {}

\* A report that never takes the read lock.
RLockMissing(m, p) == m

\* graphMutex.RLock() (lines 41, 156).
RLock(m, p) == [m EXCEPT !.readers = @ \cup {p}]

\* A report that never releases the read lock.
RUnlockMissing(m, p) == m

\* defer graphMutex.RUnlock() (lines 42, 157), run when the call returns.
RUnlock(m, p) == [m EXCEPT !.readers = @ \ {p}]

\* A failed os.Create that falls through to the write.
AfterCreateFailedFallThrough == "write"

\* The position after a failed os.Create: the call returns (line 143).
AfterCreateFailed == "return"

\* The position after a failed WriteAll: the warning is the last statement.
AfterWriteFailed == "return"

InReport == {"failures", "classify", "render", "create", "write", "log", "return"}

\* A caller starts a report; the call's first statement is RLock.
Call(p) ==
    /\ pc[p] = "idle"
    /\ pc' = [pc EXCEPT ![p] = "rlock"]
    /\ \E allow \in (IF p = "print" THEN BOOLEAN ELSE {FALSE}) :
         locals' = [locals EXCEPT ![p] = [NoLocals EXCEPT !.allow = allow]]
    /\ logOut' = [logOut EXCEPT ![p] = <<>>]
    /\ unlocks' = [unlocks EXCEPT ![p] = 0]
    /\ UNCHANGED <<pkgGraph, buildState, seqVars, csvFile, rw, snap, nwrites>>

\* Lines 41 and 156.
AcquireRLock(p) ==
    /\ pc[p] = "rlock"
    /\ CanRLock(rw)
    /\ rw' = RLock(rw, p)
    /\ snap' = [snap EXCEPT ![p] = buildState]
    /\ pc' = [pc EXCEPT ![p] = "failures"]
    /\ UNCHANGED <<pkgGraph, buildState, seqVars, csvFile, locals, logOut, unlocks, nwrites>>

\* Lines 44-48.
RecordReadFailures ==
    /\ pc["record"] = "failures"
    /\ locals' = [locals EXCEPT !["record"].failed = FailedSRPMs(pkgGraph, BuildFailures(buildState))]
    /\ pc' = [pc EXCEPT !["record"] = "classify"]
    /\ UNCHANGED <<pkgGraph, buildState, seqVars, csvFile, rw, logOut, snap, unlocks, nwrites>>

\* Lines 50-83.
RecordClassify ==
    /\ pc["record"] = "classify"
    /\ \E cats \in {Classify(pkgGraph, buildState, locals["record"].failed, o) :
                       o \in OrdersOf(AllBuildNodes(pkgGraph))} :
         locals' = [locals EXCEPT !["record"].cats = cats]
    /\ pc' = [pc EXCEPT !["record"] = "render"]
    /\ UNCHANGED <<pkgGraph, buildState, seqVars, csvFile, rw, logOut, snap, unlocks, nwrites>>

\* Lines 85-138.
RecordRender ==
    /\ pc["record"] = "render"
    /\ \E blob \in {CsvBlob(pkgGraph, locals["record"].failed, locals["record"].cats, ord, fromOrd) :
                       ord \in MapOrders(locals["record"].failed, locals["record"].cats),
                       fromOrd \in FromOrders(pkgGraph)} :
         locals' = [locals EXCEPT !["record"].csvBlob = blob]
    /\ pc' = [pc EXCEPT !["record"] = "create"]
    /\ UNCHANGED <<pkgGraph, buildState, seqVars, csvFile, rw, logOut, snap, unlocks, nwrites>>

\* Lines 140-145: os.Create succeeds and truncates the file, or fails.
RecordCreate ==
    /\ pc["record"] = "create"
    /\ \/ /\ csvFile' = [state |-> "created", rows |-> <<>>]
          /\ pc' = [pc EXCEPT !["record"] = "write"]
          /\ UNCHANGED <<locals, logOut>>
       \/ /\ csvFile' = FileAfter(csvFile, locals["record"].csvBlob, "createFail")
          /\ locals' = [locals EXCEPT !["record"].io = "createFail"]
          /\ logOut' = [logOut EXCEPT !["record"] = @ \o RecordLog("createFail")]
          /\ pc' = [pc EXCEPT !["record"] = AfterCreateFailed]
    /\ UNCHANGED <<pkgGraph, buildState, seqVars, rw, snap, unlocks, nwrites>>

\* Lines 147-151: WriteAll succeeds or fails.
RecordWrite ==
    /\ pc["record"] = "write"
    /\ \/ /\ csvFile' = FileAfter(csvFile, locals["record"].csvBlob, "ok")
          /\ locals' = [locals EXCEPT !["record"].io = "ok"]
          /\ pc' = [pc EXCEPT !["record"] = "return"]
          /\ UNCHANGED logOut
       \/ /\ csvFile' = FileAfter(csvFile, locals["record"].csvBlob, "writeFail")
          /\ locals' = [locals EXCEPT !["record"].io = "writeFail"]
          /\ logOut' = [logOut EXCEPT !["record"] = @ \o RecordLog("writeFail")]
          /\ pc' = [pc EXCEPT !["record"] = AfterWriteFailed]
    /\ UNCHANGED <<pkgGraph, buildState, seqVars, rw, snap, unlocks, nwrites>>

\* Lines 159-176.
PrintReadFailures ==
    /\ pc["print"] = "failures"
    /\ locals' = [locals EXCEPT !["print"].failed = PrintFailedSRPMs(pkgGraph, BuildFailures(buildState))]
    /\ pc' = [pc EXCEPT !["print"] = "classify"]
    /\ UNCHANGED <<pkgGraph, buildState, seqVars, csvFile, rw, logOut, snap, unlocks, nwrites>>

\* Lines 178-202.
PrintClassifyStep ==
    /\ pc["print"] = "classify"
    /\ \E cats \in {PrintClassify(pkgGraph, buildState, locals["print"].failed, o) :
                       o \in OrdersOf(AllBuildNodes(pkgGraph))} :
         locals' = [locals EXCEPT !["print"].cats = cats,
                                  !["print"].unresolved = UnresolvedDependencies(pkgGraph)]
    /\ pc' = [pc EXCEPT !["print"] = "log"]
    /\ UNCHANGED <<pkgGraph, buildState, seqVars, csvFile, rw, logOut, snap, unlocks, nwrites>>

\* Lines 204-278.
PrintLog ==
    /\ pc["print"] = "log"
    /\ \E lines \in {SummaryLines(pkgGraph, buildState, locals["print"].allow,
                                  locals["print"].cats, locals["print"].unresolved, ord) :
                        ord \in PrintOrders(locals["print"].cats, locals["print"].unresolved)} :
         logOut' = [logOut EXCEPT !["print"] = @ \o lines]
    /\ pc' = [pc EXCEPT !["print"] = "return"]
    /\ UNCHANGED <<pkgGraph, buildState, seqVars, csvFile, rw, locals, snap, unlocks, nwrites>>

\* The call returns and the deferred RUnlock runs.
Return(p) ==
    /\ pc[p] = "return"
    /\ rw' = RUnlock(rw, p)
    /\ unlocks' = [unlocks EXCEPT ![p] = @ + 1]
    /\ pc' = [pc EXCEPT ![p] = "done"]
    /\ UNCHANGED <<pkgGraph, buildState, seqVars, csvFile, locals, logOut, snap, nwrites>>

\* The scheduler asks for the write lock.
SchedLock ==
    /\ pc["sched"] = "idle"
    /\ nwrites < MaxWrites
    /\ rw.writer = "none"
    /\ rw' = [rw EXCEPT !.writer = "pending"]
    /\ pc' = [pc EXCEPT !["sched"] = "pending"]
    /\ UNCHANGED <<pkgGraph, buildState, seqVars, csvFile, locals, logOut, snap, unlocks, nwrites>>

\* The readers have left: the scheduler holds the write lock.
SchedAcquire ==
    /\ pc["sched"] = "pending"
    /\ CanLock(rw)
    /\ rw' = [rw EXCEPT !.writer = "held"]
    /\ pc' = [pc EXCEPT !["sched"] = "held"]
    /\ UNCHANGED <<pkgGraph, buildState, seqVars, csvFile, locals, logOut, snap, unlocks, nwrites>>

\* The scheduler records the result of building node n: available, or a
\* failure appended to the failure list.
SchedUpdate ==
    /\ pc["sched"] = "held"
    /\ \E n \in AllBuildNodes(pkgGraph), ok \in BOOLEAN :
         buildState' = [buildState EXCEPT
                          !.nodeToState[n] = IF ok THEN Built ELSE NoState,
                          !.failures = IF ok THEN @ ELSE Append(@, Failure(n))]
    /\ pc' = [pc EXCEPT !["sched"] = "unlock"]
    /\ UNCHANGED <<pkgGraph, seqVars, csvFile, rw, locals, logOut, snap, unlocks, nwrites>>

SchedUnlock ==
    /\ pc["sched"] = "unlock"
    /\ rw' = [rw EXCEPT !.writer = "none"]
    /\ nwrites' = nwrites + 1
    /\ pc' = [pc EXCEPT !["sched"] = "idle"]
    /\ UNCHANGED <<pkgGraph, buildState, seqVars, csvFile, locals, logOut, snap, unlocks>>

RecordSteps == RecordReadFailures \/ RecordClassify \/ RecordRender \/ RecordCreate \/ RecordWrite
PrintSteps  == PrintReadFailures \/ PrintClassifyStep \/ PrintLog
SchedSteps  == SchedAcquire \/ SchedUpdate \/ SchedUnlock

\* Everything but the start of a call and the scheduler's next request.
Running ==
    \/ \E p \in Reports : AcquireRLock(p) \/ Return(p)
    \/ RecordSteps
    \/ PrintSteps
    \/ SchedSteps

\* The spec's example graph (three build nodes, different SRPMs), build state
\* as constructed.
ConcInit ==
    /\ pkgGraph = Graph(<<"build", "Build">>, DistinctPaths)
    /\ buildState = EmptyBuildState
    /\ NoReport
    /\ IdleConc

ConcNext ==
    \/ \E p \in Reports : Call(p)
    \/ SchedLock
    \/ Running

ConcSpec == ConcInit /\ [][ConcNext]_vars

\* Goroutines that can run do run: no step of a call in flight, and no step of
\* the scheduler once it asked for the lock, is postponed for ever.
FairSpec ==
    /\ ConcSpec
    /\ \A p \in Reports : WF_vars(AcquireRLock(p)) /\ WF_vars(Return(p))
    /\ WF_vars(RecordSteps)
    /\ WF_vars(PrintSteps)
    /\ WF_vars(SchedSteps)

----------------------------------------------------------------------------
(* Properties of the reports under concurrency *)

\* What a RecordBuildSummary call has computed so far comes from build state bs.
RecordFrom(bs) ==
    LET l == locals["record"]
    IN  /\ pc["record"] \in {"classify", "render", "create", "write", "return", "done"}
            => l.failed = FailedSRPMs(pkgGraph, BuildFailures(bs))
        /\ pc["record"] \in {"render", "create", "write", "return", "done"}
            => \E o \in OrdersOf(AllBuildNodes(pkgGraph)) :
                  l.cats = Classify(pkgGraph, bs, FailedSRPMs(pkgGraph, BuildFailures(bs)), o)
        /\ pc["record"] \in {"create", "write", "return", "done"}
            => \E ord \in MapOrders(l.failed, l.cats), fromOrd \in FromOrders(pkgGraph) :
                  l.csvBlob = CsvBlob(pkgGraph, l.failed, l.cats, ord, fromOrd)

\* What a PrintBuildSummary call has computed and logged so far comes from bs.
PrintFrom(bs) ==
    LET l == locals["print"]
    IN  /\ pc["print"] \in {"classify", "log", "return", "done"}
            => l.failed = PrintFailedSRPMs(pkgGraph, BuildFailures(bs))
        /\ pc["print"] \in {"log", "return", "done"}
            => \E o \in OrdersOf(AllBuildNodes(pkgGraph)) :
                  l.cats = PrintClassify(pkgGraph, bs, PrintFailedSRPMs(pkgGraph, BuildFailures(bs)), o)
        /\ pc["print"] \in {"return", "done"}
            => \E ord \in PrintOrders(l.cats, l.unresolved) :
                  logOut["print"] = SummaryLines(pkgGraph, bs, l.allow, l.cats, l.unresolved, ord)

\* C6: no scheduler update takes effect between a report's first read and
\* its last output, and everything one report computes and renders comes from
\* the one build state it locked.
C6_ConsistentSnapshot ==
    /\ \A p \in Reports : pc[p] \in InReport => buildState = snap[p]
    /\ RecordFrom(snap["record"])
    /\ PrintFrom(snap["print"])

\* Both reports have returned, each from a snapshot the scheduler has since
\* left behind, and the two snapshots differ.
C6_Witness ==
    /\ pc["record"] = "done" /\ pc["print"] = "done"
    /\ snap["record"] # snap["print"]
    /\ snap["record"] # buildState /\ snap["print"] # buildState
    /\ Len(locals["record"].csvBlob) > 1 /\ Len(logOut["print"]) > 9

Warnings(log) == Cardinality({i \in 1..Len(log) : log[i].sev = "Warn"})

RecordIoFailed ==
    /\ pc["record"] \in {"write", "return", "done"}
    /\ locals["record"].io \in {"createFail", "writeFail"}

\* A complete console summary of the snapshot the call locked.
PrintComplete == pc["print"] = "done" /\ PrintFrom(snap["print"])

\* C7: when creating or writing the CSV file fails, RecordBuildSummary logs
\* one warning and returns; no step of it changes the graph or the build
\* state; and a PrintBuildSummary call made after or during it runs to
\* completion and logs the full summary.
C7_IoFailureContained ==
    /\ [](RecordIoFailed =>
            /\ Warnings(logOut["record"]) = 1
            /\ pc["record"] \in {"return", "done"})
    /\ [][pc'["record"] # pc["record"] => UNCHANGED <<pkgGraph, buildState>>]_vars
    /\ (RecordIoFailed ~> pc["record"] = "done")
    /\ ((pc["print"] = "rlock") ~> PrintComplete)

\* RecordBuildSummary has returned after a failed write, and the console
\* summary that started meanwhile is complete.
C7_Witness ==
    /\ pc["record"] = "done" /\ locals["record"].io = "writeFail"
    /\ csvFile.state = "partial"
    /\ PrintComplete

\* A call in flight holds the read lock and has not released it; a call
\* that has not locked yet or has returned does not hold it; a returned call
\* released it once.
LockDiscipline ==
    \A p \in Reports :
        /\ pc[p] \in InReport => (p \in rw.readers /\ unlocks[p] = 0)
        /\ pc[p] \in {"idle", "rlock", "done"} => p \notin rw.readers
        /\ pc[p] = "done" => unlocks[p] = 1

\* C9: every call that took the read lock releases it exactly once on every
\* exit path, holds it through the file create and write, never holds it
\* after returning, and a scheduler waiting for the write lock gets it.
C9_LockReleased ==
    /\ []LockDiscipline
    /\ \A p \in Reports : (p \in rw.readers) ~> (pc[p] = "done" /\ p \notin rw.readers)
    /\ ((pc["sched"] = "pending") ~> (pc["sched"] = "held"))

\* RecordBuildSummary returned early from a failed os.Create, the lock is
\* free of it and the scheduler, which was waiting, holds the write lock.
C9_Witness ==
    /\ pc["record"] = "done" /\ locals["record"].io = "createFail"
    /\ "record" \notin rw.readers
    /\ pc["sched"] = "held"

====
